---- MODULE Spec2Model ----
(***************************************************************************)
(* Model of src/streamlit.py: the dashboard page load                      *)
(*   main -> load_results -> parse_text_results -> rendering.              *)
(* Text is modelled as a sequence of one-character strings, so that        *)
(* strip(), startswith(), the regular expression of                        *)
(* extract_class_distribution and "\n".join are computed character by      *)
(* character, as the code computes them.                                   *)
(***************************************************************************)
EXTENDS Integers, Sequences, FiniteSets, TLC

\* Largest number of lines of a generated results file.
MaxLines == 3

(***************************************************************************)
(* Characters and string literals of the source                            *)
(***************************************************************************)
\* \d of the regular expression (ASCII digits; Unicode digits are not modelled)
Digits == {"0", "1", "2", "3", "4", "5", "6", "7", "8", "9"}

\* the characters str.strip() removes (vertical tab is not modelled)
Whitespace == {" ", "\t", "\n", "\r", "\f"}

ClassificationReportPrefix ==
    <<"C", "l", "a", "s", "s", "i", "f", "i", "c", "a", "t", "i", "o", "n", " ", "R", "e", "p", "o", "r", "t", ":">>
ClassDistributionPrefix ==
    <<"C", "l", "a", "s", "s", " ", "D", "i", "s", "t", "r", "i", "b", "u", "t", "i", "o", "n", ":">>
TrainSetPrefix ==
    <<"T", "r", "a", "i", "n", " ", "S", "e", "t", ":">>
TestSetPrefix ==
    <<"T", "e", "s", "t", " ", "S", "e", "t", ":">>
SmoteTrainSetPrefix ==
    <<"S", "M", "O", "T", "E", " ", "T", "r", "a", "i", "n", " ", "S", "e", "t", ":">>
NotAvailable ==
    <<"N", "/", "A">>

\* current_section = None
None == "None"

(***************************************************************************)
(* Inputs: the lines f.readlines() can return                              *)
(***************************************************************************)
L_Report ==
    <<"C", "l", "a", "s", "s", "i", "f", "i", "c", "a", "t", "i", "o", "n", " ", "R", "e", "p", "o", "r", "t", ":", "\n">>
L_Dist ==
    <<"C", "l", "a", "s", "s", " ", "D", "i", "s", "t", "r", "i", "b", "u", "t", "i", "o", "n", ":", "\n">>
L_Train ==
    <<"T", "r", "a", "i", "n", " ", "S", "e", "t", ":", " ", "0", ":", " ", "1", "2", "0", " ", "1", ":", " ", "4", "5", "\n">>
L_TrainNoSpace ==
    <<"T", "r", "a", "i", "n", " ", "S", "e", "t", ":", " ", "0", ":", "1", "2", "0", "\n">>
L_TestEmpty ==
    <<"T", "e", "s", "t", " ", "S", "e", "t", ":">>
L_TestChain ==
    <<"T", "e", "s", "t", " ", "S", "e", "t", ":", " ", "1", ":", " ", "2", ":", " ", "3", " ", "0", "7", ":", " ", "5", "\n">>
L_SmoteDup ==
    <<" ", " ", "S", "M", "O", "T", "E", " ", "T", "r", "a", "i", "n", " ", "S", "e", "t", ":", " ", "1", ":", " ", "2", " ", "1", ":", " ", "3", "\n">>
L_SmoteWide ==
    <<"S", "M", "O", "T", "E", " ", "T", "r", "a", "i", "n", " ", "S", "e", "t", ":", " ", "0", ":", " ", " ", "9", "\n">>
L_BodyAb ==
    <<" ", " ", "a", "b", " ", "\n">>
L_BodyCd ==
    <<"c", "d", "\n">>
L_Blank ==
    <<"\n">>
L_Inner ==
    <<"x", " ", "T", "r", "a", "i", "n", " ", "S", "e", "t", ":", " ", "4", ":", " ", "4", "\n">>

LinePool ==
    {L_Report, L_Dist, L_Train, L_TrainNoSpace, L_TestEmpty, L_TestChain,
     L_SmoteDup, L_SmoteWide, L_BodyAb, L_BodyCd, L_Blank, L_Inner}

\* the eight lines of the scenario of the specification
ScenarioLines ==
    << <<"C", "l", "a", "s", "s", "i", "f", "i", "c", "a", "t", "i", "o", "n", " ", "R", "e", "p", "o", "r", "t", ":", "\n">>,
       <<"p", "r", "e", "c", "i", "s", "i", "o", "n", " ", "r", "e", "c", "a", "l", "l", " ", "f", "1", "\n">>,
       <<"0", ".", "9", " ", "0", ".", "8", " ", "0", ".", "8", "5", "\n">>,
       <<"C", "l", "a", "s", "s", " ", "D", "i", "s", "t", "r", "i", "b", "u", "t", "i", "o", "n", ":", "\n">>,
       <<"T", "r", "a", "i", "n", " ", "S", "e", "t", ":", " ", "0", ":", " ", "1", "0", "0", " ", "1", ":", " ", "5", "0", "\n">>,
       <<"T", "e", "s", "t", " ", "S", "e", "t", ":", " ", "0", ":", " ", "2", "0", " ", "1", ":", " ", "1", "0", "\n">>,
       <<"S", "M", "O", "T", "E", " ", "T", "r", "a", "i", "n", " ", "S", "e", "t", ":", " ", "0", ":", " ", "1", "0", "0", " ", "1", ":", " ", "1", "0", "0", "\n">>,
       <<"e", "x", "t", "r", "a", " ", "t", "r", "a", "i", "l", "i", "n", "g", " ", "n", "o", "t", "e">> >>

Inputs ==
    UNION {[1..n -> LinePool] : n \in 0..MaxLines} \cup {ScenarioLines}

(***************************************************************************)
(* String operations                                                       *)
(***************************************************************************)
\* first position at or after j that does not hold whitespace
RECURSIVE SkipLeft(_, _)
SkipLeft(s, j) ==
    IF j <= Len(s) /\ s[j] \in Whitespace THEN SkipLeft(s, j + 1) ELSE j

\* last position at or before j that does not hold whitespace
RECURSIVE SkipRight(_, _)
SkipRight(s, j) ==
    IF j >= 1 /\ s[j] \in Whitespace THEN SkipRight(s, j - 1) ELSE j

\* line.strip()
strip(s) == SubSeq(s, SkipLeft(s, 1), SkipRight(s, Len(s)))

\* line.startswith(prefix)
startswith(s, prefix) ==
    /\ Len(s) >= Len(prefix)
    /\ \A j \in 1..Len(prefix) : s[j] = prefix[j]

\* "\n".join(current_data)
RECURSIVE join(_)
join(data) ==
    IF data = <<>> THEN <<>>
    ELSE IF Len(data) = 1 THEN data[1]
    ELSE data[1] \o <<"\n">> \o join(Tail(data))

DigitValue(c) ==
    CASE c = "0" -> 0 [] c = "1" -> 1 [] c = "2" -> 2 [] c = "3" -> 3
      [] c = "4" -> 4 [] c = "5" -> 5 [] c = "6" -> 6 [] c = "7" -> 7
      [] c = "8" -> 8 [] c = "9" -> 9

\* int(k) of a string of digits
RECURSIVE int(_)
int(s) ==
    IF s = <<>> THEN 0
    ELSE 10 * int(SubSeq(s, 1, Len(s) - 1)) + DigitValue(s[Len(s)])

(***************************************************************************)
(* extract_class_distribution: re.findall(r"(\d+): (\d+)", text)           *)
(***************************************************************************)
\* first position at or after j that does not hold a digit (greedy \d+)
RECURSIVE DigitRunEnd(_, _)
DigitRunEnd(s, j) ==
    IF j <= Len(s) /\ s[j] \in Digits THEN DigitRunEnd(s, j + 1) ELSE j

\* variant: the space after the colon is optional, r"(\d+): ?(\d+)"
MatchAt_optional_space(s, j) ==
    IF j > Len(s) \/ s[j] \notin Digits
    THEN [ok |-> FALSE]
    ELSE LET c == DigitRunEnd(s, j)
             g == IF c + 1 <= Len(s) /\ s[c + 1] = " " THEN 1 ELSE 0
         IN  IF /\ c + g + 1 <= Len(s)
                /\ s[c] = ":"
                /\ s[c + g + 1] \in Digits
             THEN LET e == DigitRunEnd(s, c + g + 1)
                  IN  [ok |-> TRUE, k |-> SubSeq(s, j, c - 1),
                       v |-> SubSeq(s, c + g + 1, e - 1), next |-> e]
             ELSE [ok |-> FALSE]

\* One attempt of the pattern at position j.  \d+ is greedy; giving back
\* digits cannot help, since the character after a shorter run is a digit
\* and not the colon the pattern needs.
MatchAt(s, j) ==
    IF j > Len(s) \/ s[j] \notin Digits
    THEN [ok |-> FALSE]
    ELSE LET c == DigitRunEnd(s, j)
         IN  IF /\ c + 2 <= Len(s)
                /\ s[c] = ":"
                /\ s[c + 1] = " "
                /\ s[c + 2] \in Digits
             THEN LET e == DigitRunEnd(s, c + 2)
                  IN  [ok |-> TRUE, k |-> SubSeq(s, j, c - 1),
                       v |-> SubSeq(s, c + 2, e - 1), next |-> e]
             ELSE [ok |-> FALSE]

\* re.findall: leftmost match from j, then resume after the match
RECURSIVE findall(_, _)
findall(s, j) ==
    IF j > Len(s) THEN <<>>
    ELSE LET m == MatchAt(s, j)
         IN  IF m.ok THEN << <<m.k, m.v>> >> \o findall(s, m.next)
             ELSE findall(s, j + 1)

EmptyDict == [x \in {} |-> 0]

\* d[key] = value
SetItem(d, key, value) ==
    [x \in DOMAIN d \cup {key} |-> IF x = key THEN value ELSE d[x]]

\* {int(k): int(v) for k, v in match}
RECURSIVE DictOfPairs(_)
DictOfPairs(match) ==
    IF match = <<>> THEN EmptyDict
    ELSE LET n == Len(match)
         IN  SetItem(DictOfPairs(SubSeq(match, 1, n - 1)),
                     int(match[n][1]), int(match[n][2]))

extract_class_distribution(text) ==
    LET match == findall(text, 1)
    IN  IF match # <<>> THEN DictOfPairs(match) ELSE EmptyDict

(***************************************************************************)
(* Values of the results dict and widgets of the page                      *)
(***************************************************************************)
\* a str value and a dict value of results
TextValue(s) == [text |-> s]
DistValue(d) == [counts |-> d]

SectionKeys == {"classification_report", "class_distribution"}
SetKeys == {"train_set", "test_set", "smote_train_set"}

Title == [widget |-> "title"]
Subheader(name) == [widget |-> "subheader", name |-> name]
Text(body) == [widget |-> "text", body |-> body]
Warning(msg) == [widget |-> "warning", msg |-> msg]
Error == [widget |-> "error"]
Pyplot(fig, data) == [widget |-> "pyplot", fig |-> fig, data |-> data]
DownloadButton(data) == [widget |-> "download_button", data |-> data]

MissingFileMsg == "Warning: The results file does not exist."
MissingDataMsg == "Class distribution data missing."
NoResultsMsg == "No results found or invalid file format."

VARIABLES file, lines, pc, pos, results, current_section, current_data, ret, page

vars == <<file, lines, pc, pos, results, current_section, current_data, ret, page>>

(***************************************************************************)
(* Rendering helpers                                                       *)
(***************************************************************************)
\* dataset.replace("_", " ").title()
DatasetTitle(dataset) ==
    CASE dataset = "train_set" -> "Train Set"
      [] dataset = "test_set" -> "Test Set"
      [] dataset = "smote_train_set" -> "Smote Train Set"

\* the rows of the data frame (the order of the rows is not modelled)
ChartRows(r) ==
    UNION {{[Dataset |-> DatasetTitle(k), Class |-> c, Count |-> r[k].counts[c]]
              : c \in DOMAIN r[k].counts}
           : k \in DOMAIN r \cap SetKeys}

\* variant: the warning only when all three keys are missing
plot_class_distribution_all_missing(r) ==
    IF /\ "train_set" \notin DOMAIN r
       /\ "test_set" \notin DOMAIN r
       /\ "smote_train_set" \notin DOMAIN r
    THEN <<Warning(MissingDataMsg)>>
    ELSE <<Pyplot("Class Distribution Across Datasets", ChartRows(r))>>

plot_class_distribution(r) ==
    IF \/ "train_set" \notin DOMAIN r
       \/ "test_set" \notin DOMAIN r
       \/ "smote_train_set" \notin DOMAIN r
    THEN <<Warning(MissingDataMsg)>>
    ELSE <<Pyplot("Class Distribution Across Datasets", ChartRows(r))>>

plot_confusion_matrix ==
    <<Pyplot("Confusion Matrix", <<<<1, 0>>, <<0, 1>>>>)>>

DigitChar(n) == <<"0", "1", "2", "3", "4", "5", "6", "7", "8", "9">>[n + 1]

\* the decimal text json.dumps writes for an integer key
RECURSIVE str(_)
str(n) ==
    IF n < 10 THEN <<DigitChar(n)>>
    ELSE str(n \div 10) \o <<DigitChar(n % 10)>>

JsonEscape(c) ==
    CASE c = "\n" -> <<"\\", "n">>
      [] c = "\t" -> <<"\\", "t">>
      [] c = "\r" -> <<"\\", "r">>
      [] c = "\f" -> <<"\\", "f">>
      [] c = "\\" -> <<"\\", "\\">>
      [] c = "\"" -> <<"\\", "\"">>
      [] OTHER -> <<c>>

RECURSIVE JsonString(_)
JsonString(s) ==
    IF s = <<>> THEN <<>> ELSE JsonEscape(s[1]) \o JsonString(Tail(s))

\* json.dumps(results, indent=4): strings are escaped, integer keys become
\* decimal strings (the indentation is not modelled)
json_dumps(r) ==
    [k \in DOMAIN r |->
        IF k \in SetKeys
        THEN [object |-> {<<str(c), r[k].counts[c]>> : c \in DOMAIN r[k].counts}]
        ELSE [string |-> JsonString(r[k].text)]]

(***************************************************************************)
(* State after the page starts loading                                     *)
(***************************************************************************)
FileStates == {"missing", "unreadable", "readable"}

Init ==
    /\ file \in FileStates
    /\ lines \in (IF file = "readable" THEN Inputs ELSE {<<>>})
    /\ pc = "start"
    /\ pos = 0
    /\ results = EmptyDict
    /\ current_section = None
    /\ current_data = <<>>
    /\ ret = EmptyDict
    /\ page = <<>>

(***************************************************************************)
(* main, up to the return of load_results                                  *)
(***************************************************************************)
\* variant: the missing file is not reported
load_results_missing_silent ==
    /\ pc = "start"
    /\ file = "missing"
    /\ page' = <<Title>>
    /\ ret' = EmptyDict
    /\ pc' = "loaded"
    /\ UNCHANGED <<file, lines, pos, results, current_section, current_data>>

\* os.path.exists(file_path) is false
load_results_missing ==
    /\ pc = "start"
    /\ file = "missing"
    /\ page' = <<Title, Warning(MissingFileMsg)>>
    /\ ret' = EmptyDict
    /\ pc' = "loaded"
    /\ UNCHANGED <<file, lines, pos, results, current_section, current_data>>

\* open() or readlines() raises
load_results_error ==
    /\ pc = "start"
    /\ file = "unreadable"
    /\ page' = <<Title, Error>>
    /\ ret' = EmptyDict
    /\ pc' = "loaded"
    /\ UNCHANGED <<file, lines, pos, results, current_section, current_data>>

\* data = f.readlines(); parse_text_results(data) is entered
load_results_parse ==
    /\ pc = "start"
    /\ file = "readable"
    /\ page' = <<Title>>
    /\ results' = EmptyDict
    /\ current_section' = None
    /\ current_data' = <<>>
    /\ pos' = 1
    /\ pc' = "parse"
    /\ UNCHANGED <<file, lines, ret>>

(***************************************************************************)
(* parse_text_results: one action per branch of the loop body              *)
(***************************************************************************)
InLoop == pc = "parse" /\ pos <= Len(lines)

\* line = line.strip()
Line == strip(lines[pos])

\* the if / elif chain: the first prefix the line starts with, 0 for none
Branch(line) ==
    IF startswith(line, ClassificationReportPrefix) THEN 1
    ELSE IF startswith(line, ClassDistributionPrefix) THEN 2
    ELSE IF startswith(line, TrainSetPrefix) THEN 3
    ELSE IF startswith(line, TestSetPrefix) THEN 4
    ELSE IF startswith(line, SmoteTrainSetPrefix) THEN 5
    ELSE 0

\* variant: the open section is flushed before the report section starts
parse_classification_report_flushes ==
    /\ InLoop
    /\ Branch(Line) = 1
    /\ results' = IF current_section # None /\ current_data # <<>>
                  THEN SetItem(results, current_section, TextValue(join(current_data)))
                  ELSE results
    /\ current_section' = "classification_report"
    /\ current_data' = <<>>
    /\ pos' = pos + 1
    /\ UNCHANGED <<file, lines, pc, ret, page>>

parse_classification_report ==
    /\ InLoop
    /\ Branch(Line) = 1
    /\ current_section' = "classification_report"
    /\ current_data' = <<>>
    /\ pos' = pos + 1
    /\ UNCHANGED <<file, lines, pc, results, ret, page>>

\* variant: the report is not flushed when the distribution section starts
parse_class_distribution_noflush ==
    /\ InLoop
    /\ Branch(Line) = 2
    /\ current_section' = "class_distribution"
    /\ current_data' = <<>>
    /\ pos' = pos + 1
    /\ UNCHANGED <<file, lines, pc, results, ret, page>>

parse_class_distribution ==
    /\ InLoop
    /\ Branch(Line) = 2
    /\ results' = IF current_section = "classification_report"
                  THEN SetItem(results, current_section, TextValue(join(current_data)))
                  ELSE results
    /\ current_section' = "class_distribution"
    /\ current_data' = <<>>
    /\ pos' = pos + 1
    /\ UNCHANGED <<file, lines, pc, ret, page>>

\* variant: the mapping is stored under the key of the test set
parse_train_set_wrong_key ==
    /\ InLoop
    /\ Branch(Line) = 3
    /\ results' = SetItem(results, "test_set", DistValue(extract_class_distribution(Line)))
    /\ pos' = pos + 1
    /\ UNCHANGED <<file, lines, pc, current_section, current_data, ret, page>>

parse_train_set ==
    /\ InLoop
    /\ Branch(Line) = 3
    /\ results' = SetItem(results, "train_set", DistValue(extract_class_distribution(Line)))
    /\ pos' = pos + 1
    /\ UNCHANGED <<file, lines, pc, current_section, current_data, ret, page>>

\* variant: an empty mapping is not recorded
parse_test_set_skips_empty ==
    /\ InLoop
    /\ Branch(Line) = 4
    /\ results' = IF extract_class_distribution(Line) = EmptyDict
                  THEN results
                  ELSE SetItem(results, "test_set", DistValue(extract_class_distribution(Line)))
    /\ pos' = pos + 1
    /\ UNCHANGED <<file, lines, pc, current_section, current_data, ret, page>>

parse_test_set ==
    /\ InLoop
    /\ Branch(Line) = 4
    /\ results' = SetItem(results, "test_set", DistValue(extract_class_distribution(Line)))
    /\ pos' = pos + 1
    /\ UNCHANGED <<file, lines, pc, current_section, current_data, ret, page>>

\* variant: the line is also accumulated in the open section
parse_smote_train_set_appends ==
    /\ InLoop
    /\ Branch(Line) = 5
    /\ results' = SetItem(results, "smote_train_set", DistValue(extract_class_distribution(Line)))
    /\ current_data' = IF current_section # None THEN Append(current_data, Line)
                       ELSE current_data
    /\ pos' = pos + 1
    /\ UNCHANGED <<file, lines, pc, current_section, ret, page>>

parse_smote_train_set ==
    /\ InLoop
    /\ Branch(Line) = 5
    /\ results' = SetItem(results, "smote_train_set", DistValue(extract_class_distribution(Line)))
    /\ pos' = pos + 1
    /\ UNCHANGED <<file, lines, pc, current_section, current_data, ret, page>>

\* variant: the line is put in front of the accumulated lines
parse_append_prepends ==
    /\ InLoop
    /\ Branch(Line) = 0
    /\ current_section # None
    /\ current_data' = <<Line>> \o current_data
    /\ pos' = pos + 1
    /\ UNCHANGED <<file, lines, pc, results, current_section, ret, page>>

\* elif current_section: current_data.append(line)
parse_append ==
    /\ InLoop
    /\ Branch(Line) = 0
    /\ current_section # None
    /\ current_data' = Append(current_data, Line)
    /\ pos' = pos + 1
    /\ UNCHANGED <<file, lines, pc, results, current_section, ret, page>>

\* variant: a line outside any section is accumulated all the same
parse_skip_appends ==
    /\ InLoop
    /\ Branch(Line) = 0
    /\ current_section = None
    /\ current_data' = Append(current_data, Line)
    /\ pos' = pos + 1
    /\ UNCHANGED <<file, lines, pc, results, current_section, ret, page>>

\* no branch is taken
parse_skip ==
    /\ InLoop
    /\ Branch(Line) = 0
    /\ current_section = None
    /\ pos' = pos + 1
    /\ UNCHANGED <<file, lines, pc, results, current_section, current_data, ret, page>>

\* after the loop: the trailing flush, and the return to load_results and main
parse_return ==
    /\ pc = "parse"
    /\ pos > Len(lines)
    /\ results' = IF current_section # None /\ current_data # <<>>
                  THEN SetItem(results, current_section, TextValue(join(current_data)))
                  ELSE results
    /\ ret' = results'
    /\ pc' = "loaded"
    /\ UNCHANGED <<file, lines, pos, current_section, current_data, page>>

(***************************************************************************)
(* main, after load_results                                                *)
(***************************************************************************)
\* results.get("classification_report", "N/A")
ReportText(r) ==
    IF "classification_report" \in DOMAIN r
    THEN r["classification_report"].text
    ELSE NotAvailable

ReportWidgets(r) ==
    <<Subheader("Classification Report"), Text(ReportText(r)),
      Subheader("Class Distribution")>>

\* if results: the whole page is rendered
main_render ==
    /\ pc = "loaded"
    /\ DOMAIN ret # {}
    /\ page' = page \o ReportWidgets(ret)
                    \o plot_class_distribution(ret)
                    \o <<Subheader("Confusion Matrix")>>
                    \o plot_confusion_matrix
                    \o <<DownloadButton(json_dumps(ret))>>
    /\ pc' = "done"
    /\ UNCHANGED <<file, lines, pos, results, current_section, current_data, ret>>

\* The three mappings are present and all empty: the data frame has no
\* columns, and whether sns.barplot draws it or raises depends on the
\* plotting library; when it raises the page load stops there.
main_barplot_raises ==
    /\ pc = "loaded"
    /\ SetKeys \subseteq DOMAIN ret
    /\ ChartRows(ret) = {}
    /\ page' = page \o ReportWidgets(ret)
    /\ pc' = "aborted"
    /\ UNCHANGED <<file, lines, pos, results, current_section, current_data, ret>>

\* else: st.warning("No results found or invalid file format.")
main_no_results ==
    /\ pc = "loaded"
    /\ DOMAIN ret = {}
    /\ page' = Append(page, Warning(NoResultsMsg))
    /\ pc' = "done"
    /\ UNCHANGED <<file, lines, pos, results, current_section, current_data, ret>>

Next ==
    \/ load_results_missing
    \/ load_results_error
    \/ load_results_parse
    \/ parse_classification_report
    \/ parse_class_distribution
    \/ parse_train_set
    \/ parse_test_set
    \/ parse_smote_train_set
    \/ parse_append
    \/ parse_skip
    \/ parse_return
    \/ main_render
    \/ main_barplot_raises
    \/ main_no_results

Spec == Init /\ [][Next]_vars


(***************************************************************************)
(* Vocabulary of the properties, read off the input file                   *)
(***************************************************************************)
Min(S) == CHOOSE x \in S : \A y \in S : x <= y
Max(S) == CHOOSE x \in S : \A y \in S : x >= y

\* parse_text_results has returned to main
Returned == file = "readable" /\ pc \in {"loaded", "done", "aborted"}

\* the page load is over
PageOver == pc \in {"done", "aborted"}

Stripped(j) == strip(lines[j])

IsReportHeader(j) == startswith(Stripped(j), ClassificationReportPrefix)
IsDistHeader(j) == startswith(Stripped(j), ClassDistributionPrefix)
IsSectionHeader(j) == IsReportHeader(j) \/ IsDistHeader(j)

SetPrefix(k) ==
    CASE k = "train_set" -> TrainSetPrefix
      [] k = "test_set" -> TestSetPrefix
      [] k = "smote_train_set" -> SmoteTrainSetPrefix

IsSetLineOf(j, k) == startswith(Stripped(j), SetPrefix(k))
IsSetLine(j) == \E k \in SetKeys : IsSetLineOf(j, k)

\* a line with none of the five prefixes
IsPlain(j) == ~IsSectionHeader(j) /\ ~IsSetLine(j)

SectionHeaders == {j \in 1..Len(lines) : IsSectionHeader(j)}

\* the keys the input's header lines name
KeysOfHeaders ==
    {"classification_report" : j \in {m \in 1..Len(lines) : IsReportHeader(m)}}
    \cup {"class_distribution" : j \in {m \in 1..Len(lines) : IsDistHeader(m)}}
    \cup {k \in SetKeys : \E j \in 1..Len(lines) : IsSetLineOf(j, k)}

\* the trimmed plain lines at h+1 .. e, in input order
RECURSIVE Body(_, _)
Body(h, e) ==
    IF e <= h THEN <<>>
    ELSE Body(h, e - 1) \o (IF IsPlain(e) THEN <<Stripped(e)>> ELSE <<>>)

LastHeader == Max(SectionHeaders)

SectionOf(j) ==
    IF IsReportHeader(j) THEN "classification_report" ELSE "class_distribution"

\* the lines the loop has gone through
Processed == IF pc = "parse" THEN 1..(pos - 1) ELSE 1..Len(lines)

Parsing == file = "readable" /\ pc # "start"

(***************************************************************************)
(* The pattern of a digit pair, stated on positions of the text            *)
(***************************************************************************)
AllDigits(s, a, b) == a <= b /\ \A j \in a..b : s[j] \in Digits

\* every way to read, in s, digits from..colon-1, a colon, gap spaces and
\* digits up to position to, for a number of spaces taken from gaps
Occurrences(s, gaps) ==
    {o \in [from : {j \in 1..Len(s) : s[j] \in Digits},
            colon : {j \in 1..Len(s) : s[j] = ":"},
            gap : gaps,
            to : {j \in 1..Len(s) : s[j] \in Digits}] :
        /\ AllDigits(s, o.from, o.colon - 1)
        /\ \A j \in (o.colon + 1)..(o.colon + o.gap) : s[j] = " "
        /\ AllDigits(s, o.colon + o.gap + 1, o.to)}

\* the non-overlapping occurrences among occs, scanning left to right from
\* position a
RECURSIVE Scan(_, _)
Scan(occs, a) ==
    LET cand == {o \in occs : o.from >= a}
    IN  IF cand = {} THEN <<>>
        ELSE LET first == Min({o.from : o \in cand})
                 last == Max({o.to : o \in {c \in cand : c.from = first}})
                 occ == CHOOSE o \in cand : o.from = first /\ o.to = last
             IN  <<occ>> \o Scan(cand, last + 1)

OccKey(s, o) == int(SubSeq(s, o.from, o.colon - 1))
OccValue(s, o) == int(SubSeq(s, o.colon + o.gap + 1, o.to))

\* one entry per occurrence, the last occurrence of a key giving its value
PairMap(s, gaps) ==
    LET occs == Scan(Occurrences(s, gaps), 1)
        keys == {OccKey(s, occs[n]) : n \in 1..Len(occs)}
    IN  [k \in keys |->
            OccValue(s, occs[Max({n \in 1..Len(occs) : OccKey(s, occs[n]) = k})])]

\* the processed lines that set key k
SetLinesOf(k) == {j \in Processed : IsSetLineOf(j, k)}

(***************************************************************************)
(* C1                                                                      *)
(***************************************************************************)
ScenarioExpected ==
    [classification_report |->
        TextValue(<<"p", "r", "e", "c", "i", "s", "i", "o", "n", " ", "r", "e", "c", "a", "l", "l", " ", "f", "1", "\n", "0", ".", "9", " ", "0", ".", "8", " ", "0", ".", "8", "5">>),
     train_set |-> DistValue(0 :> 100 @@ 1 :> 50),
     test_set |-> DistValue(0 :> 20 @@ 1 :> 10),
     smote_train_set |-> DistValue(0 :> 100 @@ 1 :> 100),
     class_distribution |->
        TextValue(<<"e", "x", "t", "r", "a", " ", "t", "r", "a", "i", "l", "i", "n", "g", " ", "n", "o", "t", "e">>)]

\* C1: parse_text_results on the eight scenario lines returns exactly the
\* five entries of the expected record.
C1_Scenario ==
    (Returned /\ lines = ScenarioLines) => ret = ScenarioExpected

C1_Witness ==
    Returned /\ lines = ScenarioLines /\ pc = "done"

(***************************************************************************)
(* C2                                                                      *)
(***************************************************************************)
\* C2 as stated: the keys of the returned record are exactly the keys named
\* by the header lines of the input.
C2_KeysExactlyHeaders ==
    Returned => DOMAIN ret = KeysOfHeaders

\* a Class Distribution header reached while classification_report is open
ReportClosedByDist ==
    \E j \in SectionHeaders :
        /\ IsDistHeader(j)
        /\ \E h \in SectionHeaders :
              /\ h < j
              /\ IsReportHeader(h)
              /\ \A m \in SectionHeaders : ~(h < m /\ m < j)

\* the input ends in section k with at least one accumulated line
EndsOpenWithBody(k) ==
    /\ SectionHeaders # {}
    /\ SectionOf(LastHeader) = k
    /\ Body(LastHeader, Len(lines)) # <<>>

\* C2 amended: no key without its header; the three set keys are present
\* exactly when their line appears; a section key is present exactly when
\* the section was flushed (by a Class Distribution header closing the
\* report, or by the trailing flush of a section with accumulated lines).
C2_KeysOfFlushedSections ==
    Returned =>
        /\ DOMAIN ret \subseteq KeysOfHeaders
        /\ \A k \in SetKeys : k \in DOMAIN ret <=> k \in KeysOfHeaders
        /\ "class_distribution" \in DOMAIN ret
              <=> EndsOpenWithBody("class_distribution")
        /\ "classification_report" \in DOMAIN ret
              <=> (EndsOpenWithBody("classification_report") \/ ReportClosedByDist)

C2_Witness ==
    /\ Returned
    /\ "train_set" \in DOMAIN ret
    /\ "class_distribution" \in KeysOfHeaders
    /\ "class_distribution" \notin DOMAIN ret

(***************************************************************************)
(* C3                                                                      *)
(***************************************************************************)
\* C3 as stated: the mapping stored for a set line has one entry per
\* non-overlapping occurrence of digits, colon, optional single space,
\* digits, the last occurrence of a key winning.
C3_OptionalSpace ==
    Parsing =>
        \A k \in SetKeys :
            SetLinesOf(k) # {} =>
                /\ k \in DOMAIN results
                /\ results[k] = DistValue(PairMap(Stripped(Max(SetLinesOf(k))), {0, 1}))

\* C3 amended: the same with exactly one space between the colon and the
\* value, so that "0: 120" gives an entry and "0:120" gives none.
C3_ExactlyOneSpace ==
    Parsing =>
        \A k \in SetKeys :
            SetLinesOf(k) # {} =>
                /\ k \in DOMAIN results
                /\ results[k] = DistValue(PairMap(Stripped(Max(SetLinesOf(k))), {1}))

C3_Witness ==
    /\ Returned
    /\ \E j \in 1..Len(lines) : lines[j] = L_Train
    /\ \E j \in 1..Len(lines) : lines[j] = L_SmoteDup
    /\ SetKeys \cap DOMAIN ret = {"train_set", "smote_train_set"}
    /\ ret["train_set"] = DistValue(0 :> 120 @@ 1 :> 45)
    /\ ret["smote_train_set"] = DistValue(1 :> 3)

(***************************************************************************)
(* C4                                                                      *)
(***************************************************************************)
LeadingPlain(j) ==
    /\ IsPlain(j)
    /\ \A m \in 1..(j - 1) : ~IsSectionHeader(m)

C4_Step ==
    (file = "readable" /\ InLoop /\ LeadingPlain(pos)) =>
        /\ results' = results
        /\ current_section' = current_section
        /\ current_data' = current_data
        /\ pos' = pos + 1

\* every text of the record is made of lines that follow a section header
C4_Final ==
    Returned =>
        \A k \in DOMAIN ret \cap SectionKeys :
            \E h \in SectionHeaders :
                \E e \in h..Len(lines) : ret[k] = TextValue(join(Body(h, e)))

\* C4: a line before the first section header that has none of the five
\* prefixes changes neither results nor current_section nor current_data,
\* and the texts of the returned record hold only lines after a header.
C4_LeadingLinesDropped ==
    [][C4_Step]_vars /\ []C4_Final

C4_Witness ==
    /\ Returned
    /\ Len(lines) >= 2
    /\ LeadingPlain(1)
    /\ Stripped(1) # <<>>
    /\ DOMAIN ret \cap SectionKeys # {}

(***************************************************************************)
(* C5                                                                      *)
(***************************************************************************)
\* C5: when the input ends with a section open and at least one accumulated
\* line, the record maps that section to the newline-join of the trimmed
\* plain lines after the last section header, in input order.
C5_TrailingFlush ==
    (Returned /\ SectionHeaders # {} /\ Body(LastHeader, Len(lines)) # <<>>) =>
        /\ SectionOf(LastHeader) \in DOMAIN ret
        /\ ret[SectionOf(LastHeader)] = TextValue(join(Body(LastHeader, Len(lines))))

C5_Witness ==
    /\ Returned
    /\ SectionHeaders # {}
    /\ Len(Body(LastHeader, Len(lines))) >= 2
    /\ Body(LastHeader, Len(lines))[1] # Body(LastHeader, Len(lines))[2]
    /\ SectionOf(LastHeader) \in DOMAIN ret

(***************************************************************************)
(* C6                                                                      *)
(***************************************************************************)
WarningsShown == {n \in 1..Len(page) : page[n].widget = "warning"}
MissingFileWarnings == {n \in 1..Len(page) : page[n] = Warning(MissingFileMsg)}

\* C6 as stated: with the file missing, the page load emits exactly one
\* warning, never enters parse_text_results and goes on with an empty record.
C6_ExactlyOneWarning ==
    file = "missing" =>
        /\ pc # "parse"
        /\ PageOver =>
              /\ Cardinality(WarningsShown) = 1
              /\ Cardinality(MissingFileWarnings) = 1
              /\ DOMAIN ret = {}

\* C6 amended: the missing file is reported by one warning of load_results,
\* parse_text_results is never entered, the record is empty, and main then
\* adds its own "No results found" warning: two warnings in the page load.
C6_MissingFileReportedOnce ==
    file = "missing" =>
        /\ pc # "parse"
        /\ pos = 0
        /\ pc \in {"loaded", "done", "aborted"} =>
              /\ Cardinality(MissingFileWarnings) = 1
              /\ DOMAIN ret = {}
        /\ PageOver =>
              page = <<Title, Warning(MissingFileMsg), Warning(NoResultsMsg)>>

C6_Witness ==
    file = "missing" /\ pc = "done" /\ Cardinality(WarningsShown) = 2

(***************************************************************************)
(* C7                                                                      *)
(***************************************************************************)
ChartWarned == \E n \in 1..Len(page) : page[n] = Warning(MissingDataMsg)

ChartDrawn ==
    \E n \in 1..Len(page) :
        /\ page[n].widget = "pyplot"
        /\ page[n].fig = "Class Distribution Across Datasets"

RestOfPage ==
    /\ \E n \in 1..Len(page) : page[n].widget = "text"
    /\ \E n \in 1..Len(page) :
          /\ page[n].widget = "pyplot"
          /\ page[n].fig = "Confusion Matrix"
    /\ \E n \in 1..Len(page) : page[n].widget = "download_button"

\* C7 as stated: whenever the parsed record lacks one of the three set keys,
\* the chart stage warns, draws no chart, and the report panel, the heatmap
\* and the download action are rendered.
C7_AnyRecordLackingSets ==
    (file = "readable" /\ PageOver /\ ~(SetKeys \subseteq DOMAIN ret)) =>
        /\ ChartWarned
        /\ ~ChartDrawn
        /\ RestOfPage

\* C7 amended: the same for a parsed record that is not empty (an empty
\* record takes the "No results found" branch and renders nothing else).
C7_NonEmptyRecordLackingSets ==
    (file = "readable" /\ PageOver /\ DOMAIN ret # {}
        /\ ~(SetKeys \subseteq DOMAIN ret)) =>
        /\ ChartWarned
        /\ ~ChartDrawn
        /\ RestOfPage

C7_Witness ==
    /\ file = "readable"
    /\ pc = "done"
    /\ DOMAIN ret # {}
    /\ DOMAIN ret \cap SetKeys # {}
    /\ ~(SetKeys \subseteq DOMAIN ret)
    /\ ChartWarned

(***************************************************************************)
(* C8                                                                      *)
(***************************************************************************)
\* C8: a set line without digit pairs records its key with an empty mapping.
C8_EmptyPairs ==
    Parsing =>
        \A k \in SetKeys :
            (SetLinesOf(k) # {}
                /\ Occurrences(Stripped(Max(SetLinesOf(k))), {0, 1}) = {}) =>
                /\ k \in DOMAIN results
                /\ results[k] = DistValue(EmptyDict)

C8_Witness ==
    /\ Returned
    /\ Len(lines) >= 1
    /\ lines[Len(lines)] = L_TestEmpty
    /\ "test_set" \in DOMAIN ret
    /\ ret["test_set"] = DistValue(EmptyDict)

(***************************************************************************)
(* C9                                                                      *)
(***************************************************************************)
C9_SetLineStep ==
    \A k \in SetKeys :
        (file = "readable" /\ InLoop /\ IsSetLineOf(pos, k)) =>
            /\ current_section' = current_section
            /\ current_data' = current_data
            /\ DOMAIN results' = DOMAIN results \cup {k}
            /\ \A x \in DOMAIN results \ {k} : results'[x] = results[x]

C9_SectionStep ==
    current_section' # current_section =>
        /\ InLoop
        /\ IsSectionHeader(pos)
        /\ current_section' = SectionOf(pos)

C9_Sections ==
    /\ current_section \in {None, "classification_report", "class_distribution"}
    /\ (pc = "parse" /\ pos = 1) => current_section = None

\* C9: a set line leaves current_section and current_data alone and changes
\* one key of results; current_section changes only on a section header,
\* starts as None and takes no other value than the two section names.
C9_SetLinesKeepSection ==
    [][C9_SetLineStep /\ C9_SectionStep]_vars /\ []C9_Sections

C9_Witness ==
    /\ file = "readable"
    /\ pc = "parse"
    /\ pos > 2
    /\ IsSetLine(pos - 1)
    /\ current_section # None
    /\ current_data # <<>>
    /\ DOMAIN results \cap SetKeys # {}

(***************************************************************************)
(* C10                                                                     *)
(***************************************************************************)
IsSubstring(t, s) ==
    \E a \in 0..(Len(s) - Len(t)) : SubSeq(s, a + 1, a + Len(t)) = t

AppearsInRecord(t) ==
    \E k \in DOMAIN ret \cap SectionKeys : IsSubstring(t, ret[k].text)

\* the text of line m is not empty and occurs in no other line of the input
OccursOnce(m) ==
    /\ Stripped(m) # <<>>
    /\ \A n \in 1..Len(lines) \ {m} : ~IsSubstring(Stripped(m), Stripped(n))

\* line m is accumulated for the class_distribution section opened at i,
\* and the line at j follows it
AccumulatedThenFollowed(i, m, j) ==
    /\ IsDistHeader(i)
    /\ i < m /\ m < j
    /\ IsPlain(m)
    /\ \A n \in (i + 1)..(j - 1) : ~IsSectionHeader(n)

\* C10 as stated: class_distribution lines followed by a line with any of
\* the five prefixes appear in no value of the returned record.
C10_DroppedByAnyPrefix ==
    Returned =>
        \A i, m, j \in 1..Len(lines) :
            (AccumulatedThenFollowed(i, m, j) /\ ~IsPlain(j) /\ OccursOnce(m))
                => ~AppearsInRecord(Stripped(m))

C10_NoFlushStep ==
    (file = "readable" /\ InLoop /\ IsSectionHeader(pos)
        /\ current_section = "class_distribution") =>
        /\ results' = results
        /\ current_data' = <<>>

C10_Dropped ==
    Returned =>
        \A i, m, j \in 1..Len(lines) :
            (AccumulatedThenFollowed(i, m, j) /\ IsSectionHeader(j) /\ OccursOnce(m))
                => ~AppearsInRecord(Stripped(m))

\* C10 amended: class_distribution lines followed by a Classification
\* Report or Class Distribution header are not flushed and appear in no
\* value of the returned record (a Train Set, Test Set or SMOTE Train Set
\* line leaves them accumulated).
C10_DroppedBySectionHeader ==
    [][C10_NoFlushStep]_vars /\ []C10_Dropped

C10_Witness ==
    /\ Returned
    /\ \E i, m, j \in 1..Len(lines) :
          AccumulatedThenFollowed(i, m, j) /\ IsSectionHeader(j) /\ OccursOnce(m)


====
